---- MODULE Spec2Model ----
(***************************************************************************)
(* A model of the MIST Python binding (bindings/python/mist/_runner.py):   *)
(* the Message codec (to_json / from_json) and the Client that runs a tool *)
(* binary as a subprocess (call / send / version).                         *)
(*                                                                         *)
(* Text (a Python str) is a sequence of one-character strings.  A Python   *)
(* object that JSON can carry is a tagged record:                          *)
(*    None  [k |-> "null"]            bool  [k |-> "bool", b |-> TRUE]     *)
(*    int   [k |-> "int", i |-> 7]    str   [k |-> "str", s |-> <<"a">>]   *)
(*    list  [k |-> "list", l |-> <<v1, v2>>]                               *)
(*    dict  [k |-> "dict", d |-> <<[key |-> <<"a">>, val |-> v1>>, ...>>]  *)
(* a dict keeps its insertion order and its keys are distinct.             *)
(***************************************************************************)
EXTENDS Integers, Sequences, FiniteSets, TLC

VARIABLES
    pc,        \* the caller's position in the operation it runs
    op,        \* the operation and its arguments
    env,       \* what the operating system and the tool will do for this operation
    child,     \* the child process: "none", "running", "zombie" (exited, unreaped), "reaped"
    childPc,   \* the tool's own position: "start", "reading", "writing", "hung", "exited"
    stdinMode, \* the child's input stream: "none", "pipe" (captured) or "inherit" (the caller's)
    stdinEOF,  \* end-of-input has been signalled on the child's input stream
    stdinData, \* the text written to the child's input stream
    outPipe,   \* the text the child has written to its output stream so far
    errPipe,   \* the text the child has written to its error stream so far
    timer,     \* the timeout of subprocess.run: "off", "armed" or "expired"
    killed,    \* the child was sent the kill signal by subprocess.run
    completed, \* the CompletedProcess subprocess.run returned, or NoResult
    callRes,   \* what Client.call returned or raised, or NoResult
    result     \* what the operation returned or raised to the caller, or NoResult

vars == <<pc, op, env, child, childPc, stdinMode, stdinEOF, stdinData,
          outPipe, errPipe, timer, killed, completed, callRes, result>>

---------------------------------------------------------------------------
(* Bounds of the model.                                                    *)

\* Nesting depth of the payloads drawn.
MaxDepth == 3
\* Lines of output a tool writes in the outputs drawn.
MaxLines == 3
\* The largest exit status drawn.
MaxExit == 2

---------------------------------------------------------------------------
(* Text.                                                                   *)

Last(s) == s[Len(s)]

RECURSIVE Concat(_)
\* "".join(parts)
Concat(parts) ==
    IF parts = <<>> THEN <<>> ELSE Head(parts) \o Concat(Tail(parts))

RECURSIVE Join(_, _)
\* sep.join(parts)
Join(parts, sep) ==
    IF parts = <<>> THEN <<>>
    ELSE IF Len(parts) = 1 THEN parts[1]
    ELSE parts[1] \o sep \o Join(Tail(parts), sep)

\* The characters str.strip() removes that occur in the texts drawn.  The
\* streams are read in text mode, which turns "\r\n" and "\r" into "\n", so
\* captured text holds no "\r".
PyWhitespace == {" ", "\t", "\n", "\f"}

\* The characters json.loads skips between tokens (no form feed).
JsonWhitespace == {" ", "\t", "\n", "\r"}

RECURSIVE LStrip(_)
LStrip(t) ==
    IF t # <<>> /\ Head(t) \in PyWhitespace THEN LStrip(Tail(t)) ELSE t

RECURSIVE RStrip(_)
RStrip(t) ==
    IF t # <<>> /\ Last(t) \in PyWhitespace THEN RStrip(SubSeq(t, 1, Len(t) - 1)) ELSE t

\* str.strip()
Strip(t) == RStrip(LStrip(t))

\* The positions of the line breaks of t, and the k-th of them (0 before the
\* text, Len(t) + 1 after the last).
LineBreaks(t) == {i \in 1..Len(t) : t[i] = "\n"}
LineBreak(t, k) ==
    IF k = 0 THEN 0
    ELSE IF k > Cardinality(LineBreaks(t)) THEN Len(t) + 1
    ELSE CHOOSE p \in LineBreaks(t) : Cardinality({q \in LineBreaks(t) : q < p}) = k - 1

\* str.split("\n"): the texts between the line breaks, one more than the breaks.
SplitLines(t) ==
    [k \in 1..(Cardinality(LineBreaks(t)) + 1) |->
        SubSeq(t, LineBreak(t, k - 1) + 1, LineBreak(t, k) - 1)]

Digits == <<"0", "1", "2", "3", "4", "5", "6", "7", "8", "9">>
DigitSet == {Digits[j] : j \in 1..10}
DigitVal(c) == CHOOSE d \in 0..9 : Digits[d + 1] = c

RECURSIVE NatChars(_)
NatChars(n) ==
    IF n < 10 THEN <<Digits[n + 1]>> ELSE Append(NatChars(n \div 10), Digits[(n % 10) + 1])

\* str(n) of an int, which is also how json.dumps writes it.
IntChars(n) == IF n < 0 THEN <<"-">> \o NatChars(0 - n) ELSE NatChars(n)

---------------------------------------------------------------------------
(* Python objects.                                                         *)

PyNone == [k |-> "null"]
PyBool(b) == [k |-> "bool", b |-> b]
PyInt(n) == [k |-> "int", i |-> n]
PyStr(s) == [k |-> "str", s |-> s]
PyList(l) == [k |-> "list", l |-> l]
PyDict(d) == [k |-> "dict", d |-> d]

HasKey(d, key) == \E j \in 1..Len(d.d) : d.d[j].key = key

\* d.get(key, default)
DictGet(d, key, default) ==
    IF HasKey(d, key)
    THEN d.d[CHOOSE j \in 1..Len(d.d) : d.d[j].key = key].val
    ELSE default

\* d[key] = val: a key already present keeps its place and takes the value.
DictSet(d, key, val) ==
    IF HasKey(d, key)
    THEN PyDict([j \in 1..Len(d.d) |->
                 IF d.d[j].key = key THEN [key |-> key, val |-> val] ELSE d.d[j]])
    ELSE PyDict(Append(d.d, [key |-> key, val |-> val]))

---------------------------------------------------------------------------
(* json.dumps: one line, the default separators being ", " and ": ".      *)

EscapeChar(c) ==
    CASE c = "\"" -> <<"\\", "\"">>
      [] c = "\\" -> <<"\\", "\\">>
      [] c = "\n" -> <<"\\", "n">>
      [] c = "\t" -> <<"\\", "t">>
      [] c = "\f" -> <<"\\", "f">>
      [] OTHER -> <<c>>

DumpsStr(s) ==
    <<"\"">> \o Concat([j \in 1..Len(s) |-> EscapeChar(s[j])]) \o <<"\"">>

RECURSIVE DumpsWith(_, _, _)
\* json.dumps(v, separators=(item_sep, key_sep))
DumpsWith(v, item_sep, key_sep) ==
    CASE v.k = "null" -> <<"n", "u", "l", "l">>
      [] v.k = "bool" -> IF v.b THEN <<"t", "r", "u", "e">> ELSE <<"f", "a", "l", "s", "e">>
      [] v.k = "int" -> IntChars(v.i)
      [] v.k = "str" -> DumpsStr(v.s)
      [] v.k = "list" ->
            <<"[">>
            \o Join([j \in 1..Len(v.l) |-> DumpsWith(v.l[j], item_sep, key_sep)], item_sep)
            \o <<"]">>
      [] v.k = "dict" ->
            <<"{">>
            \o Join([j \in 1..Len(v.d) |->
                       DumpsStr(v.d[j].key) \o key_sep
                       \o DumpsWith(v.d[j].val, item_sep, key_sep)],
                    item_sep)
            \o <<"}">>

\* json.dumps(v)
Dumps(v) == DumpsWith(v, <<",", " ">>, <<":", " ">>)

---------------------------------------------------------------------------
(* json.loads: whitespace, objects, arrays, strings with the escapes       *)
(* \" \\ \/ \n \t \f \r, the literals, and integers.  Fractions, exponents,*)
(* \uXXXX and NaN/Infinity are outside the texts drawn.                    *)

\* A value read up to (not including) position next, or a failure.
Parsed(v, next) == [ok |-> TRUE, val |-> v, next |-> next]
ParseFail == [ok |-> FALSE, val |-> PyNone, next |-> 0]

\* The character at position i, "" past the end.
CharAt(t, i) == IF i >= 1 /\ i <= Len(t) THEN t[i] ELSE ""

RECURSIVE SkipWs(_, _)
SkipWs(t, i) == IF CharAt(t, i) \in JsonWhitespace THEN SkipWs(t, i + 1) ELSE i

\* Whether the characters of word stand at position i of t.
StartsWith(t, i, word) ==
    /\ i + Len(word) - 1 <= Len(t)
    /\ \A j \in 1..Len(word) : t[i + j - 1] = word[j]

ControlChars == {"\n", "\t", "\f", "\r"}

Unescape(c) ==
    CASE c = "n" -> "\n"
      [] c = "t" -> "\t"
      [] c = "f" -> "\f"
      [] c = "r" -> "\r"
      [] OTHER -> c

RECURSIVE ScanString(_, _, _)
\* The string literal whose opening quote stands just before position i.
ScanString(t, i, acc) ==
    LET c == CharAt(t, i) IN
    IF c = "" THEN ParseFail
    ELSE IF c = "\"" THEN Parsed(PyStr(acc), i + 1)
    ELSE IF c \in ControlChars THEN ParseFail
    ELSE IF c = "\\"
         THEN IF CharAt(t, i + 1) \in {"\"", "\\", "/", "n", "t", "f", "r"}
              THEN ScanString(t, i + 2, Append(acc, Unescape(CharAt(t, i + 1))))
              ELSE ParseFail
    ELSE ScanString(t, i + 1, Append(acc, c))

RECURSIVE ScanDigits(_, _, _)
ScanDigits(t, i, n) ==
    IF CharAt(t, i) \in DigitSet
    THEN ScanDigits(t, i + 1, 10 * n + DigitVal(t[i]))
    ELSE [n |-> n, next |-> i]

\* -?(0|[1-9][0-9]*) at position i.
ScanNumber(t, i) ==
    LET neg == CharAt(t, i) = "-"
        j == IF neg THEN i + 1 ELSE i
        c == CharAt(t, j)
    IN  IF c = "0" THEN Parsed(PyInt(0), j + 1)
        ELSE IF c \in DigitSet
             THEN LET r == ScanDigits(t, j, 0)
                  IN  Parsed(PyInt(IF neg THEN 0 - r.n ELSE r.n), r.next)
        ELSE ParseFail

RECURSIVE ScanValue(_, _), ScanMembers(_, _, _), ScanElements(_, _, _)

\* scan_once: the value that starts exactly at position i.
ScanValue(t, i) ==
    LET c == CharAt(t, i) IN
    CASE c = "\"" -> ScanString(t, i + 1, <<>>)
      [] c = "{" ->
            LET j == SkipWs(t, i + 1) IN
            IF CharAt(t, j) = "}" THEN Parsed(PyDict(<<>>), j + 1)
            ELSE ScanMembers(t, j, PyDict(<<>>))
      [] c = "[" ->
            LET j == SkipWs(t, i + 1) IN
            IF CharAt(t, j) = "]" THEN Parsed(PyList(<<>>), j + 1)
            ELSE ScanElements(t, j, <<>>)
      [] c = "n" ->
            IF StartsWith(t, i, <<"n", "u", "l", "l">>) THEN Parsed(PyNone, i + 4)
            ELSE ParseFail
      [] c = "t" ->
            IF StartsWith(t, i, <<"t", "r", "u", "e">>) THEN Parsed(PyBool(TRUE), i + 4)
            ELSE ParseFail
      [] c = "f" ->
            IF StartsWith(t, i, <<"f", "a", "l", "s", "e">>) THEN Parsed(PyBool(FALSE), i + 5)
            ELSE ParseFail
      [] OTHER -> ScanNumber(t, i)

\* JSONObject: the members from position i (a key's opening quote) on.
ScanMembers(t, i, acc) ==
    IF CharAt(t, i) # "\"" THEN ParseFail
    ELSE LET key == ScanString(t, i + 1, <<>>) IN
         IF ~key.ok THEN ParseFail
         ELSE LET colon == SkipWs(t, key.next) IN
              IF CharAt(t, colon) # ":" THEN ParseFail
              ELSE LET v == ScanValue(t, SkipWs(t, colon + 1)) IN
                   IF ~v.ok THEN ParseFail
                   ELSE LET j == SkipWs(t, v.next)
                            d == DictSet(acc, key.val.s, v.val)
                        IN  IF CharAt(t, j) = "}" THEN Parsed(d, j + 1)
                            ELSE IF CharAt(t, j) = ","
                                 THEN ScanMembers(t, SkipWs(t, j + 1), d)
                            ELSE ParseFail

\* JSONArray: the elements from position i on.
ScanElements(t, i, acc) ==
    LET v == ScanValue(t, i) IN
    IF ~v.ok THEN ParseFail
    ELSE LET j == SkipWs(t, v.next) IN
         IF CharAt(t, j) = "]" THEN Parsed(PyList(Append(acc, v.val)), j + 1)
         ELSE IF CharAt(t, j) = ","
              THEN ScanElements(t, SkipWs(t, j + 1), Append(acc, v.val))
         ELSE ParseFail

\* json.loads(t): one value, whitespace around it, nothing after it.
Loads(t) ==
    LET v == ScanValue(t, SkipWs(t, 1)) IN
    IF v.ok /\ SkipWs(t, v.next) = Len(t) + 1 THEN v ELSE ParseFail

---------------------------------------------------------------------------
(* Message.                                                                *)

Chars_version == <<"v", "e", "r", "s", "i", "o", "n">>
Chars_id == <<"i", "d">>
Chars_source == <<"s", "o", "u", "r", "c", "e">>
Chars_type == <<"t", "y", "p", "e">>
Chars_timestamp_ns == <<"t", "i", "m", "e", "s", "t", "a", "m", "p", "_", "n", "s">>
Chars_payload == <<"p", "a", "y", "l", "o", "a", "d">>

\* Message(...): the dataclass, a field left out taking its default.
Message(version, id, source, type, timestamp_ns, payload) ==
    [version |-> version, id |-> id, source |-> source, type |-> type,
     timestamp_ns |-> timestamp_ns, payload |-> payload]

\* Message()
DefaultMessage ==
    Message(PyStr(<<"1">>), PyStr(<<>>), PyStr(<<>>), PyStr(<<>>), PyInt(0), PyDict(<<>>))

\* to_json writing the timestamp under the key "timestamp".
to_json_renamed_key(m) ==
    Dumps(PyDict(<<[key |-> Chars_version, val |-> m.version],
                   [key |-> Chars_id, val |-> m.id],
                   [key |-> Chars_source, val |-> m.source],
                   [key |-> Chars_type, val |-> m.type],
                   [key |-> SubSeq(Chars_timestamp_ns, 1, 9), val |-> m.timestamp_ns],
                   [key |-> Chars_payload, val |-> m.payload]>>))

\* Message.to_json
to_json(m) ==
    Dumps(PyDict(<<[key |-> Chars_version, val |-> m.version],
                   [key |-> Chars_id, val |-> m.id],
                   [key |-> Chars_source, val |-> m.source],
                   [key |-> Chars_type, val |-> m.type],
                   [key |-> Chars_timestamp_ns, val |-> m.timestamp_ns],
                   [key |-> Chars_payload, val |-> m.payload]>>))

\* What a call returns or raises.
NoResult == [kind |-> "none"]
Return(v) == [kind |-> "return", val |-> v]
Raise(exc, msg) == [kind |-> "raise", exc |-> exc, msg |-> msg]

\* from_json reading every field with d[key]: a missing field is a KeyError.
from_json_required(data) ==
    LET d == Loads(data) IN
    IF ~d.ok THEN Raise("JSONDecodeError", <<>>)
    ELSE IF d.val.k # "dict" THEN Raise("AttributeError", <<>>)
    ELSE IF \E key \in {Chars_version, Chars_id, Chars_source, Chars_type,
                        Chars_timestamp_ns, Chars_payload} : ~HasKey(d.val, key)
         THEN Raise("KeyError", <<>>)
    ELSE Return(Message(DictGet(d.val, Chars_version, PyNone),
                        DictGet(d.val, Chars_id, PyNone),
                        DictGet(d.val, Chars_source, PyNone),
                        DictGet(d.val, Chars_type, PyNone),
                        DictGet(d.val, Chars_timestamp_ns, PyNone),
                        DictGet(d.val, Chars_payload, PyNone)))

\* Message.from_json: json.loads raises JSONDecodeError on a text that is not
\* JSON; d.get raises AttributeError on a value that is no dict.
from_json(data) ==
    LET d == Loads(data) IN
    IF ~d.ok THEN Raise("JSONDecodeError", <<>>)
    ELSE IF d.val.k # "dict" THEN Raise("AttributeError", <<>>)
    ELSE Return(Message(DictGet(d.val, Chars_version, PyStr(<<"1">>)),
                        DictGet(d.val, Chars_id, PyStr(<<>>)),
                        DictGet(d.val, Chars_source, PyStr(<<>>)),
                        DictGet(d.val, Chars_type, PyStr(<<>>)),
                        DictGet(d.val, Chars_timestamp_ns, PyInt(0)),
                        DictGet(d.val, Chars_payload, PyDict(<<>>))))


---------------------------------------------------------------------------
(* Client.                                                                 *)

Text_binary_not_found ==
    <<"b", "i", "n", "a", "r", "y", " ", "n", "o", "t", " ", "f", "o", "u", "n", "d", ":", " ">>
Text_timeout_after == <<"t", "i", "m", "e", "o", "u", "t", " ", "a", "f", "t", "e", "r", " ">>
Text_exit_code == <<"e", "x", "i", "t", " ", "c", "o", "d", "e", " ">>

\* Client.__init__: the tool "mist", str(30.0), and the path _find_binary falls
\* back to, the bare tool name.
Client_tool == <<"m", "i", "s", "t">>
Client_timeout == <<"3", "0", ".", "0">>
Client_binary == Client_tool

\* subprocess.CompletedProcess
CompletedProcess(returncode, stdout, stderr) ==
    [kind |-> "completed", returncode |-> returncode, stdout |-> stdout, stderr |-> stderr]

\* Client.call, the launch failing: FileNotFoundError is caught and becomes a
\* MistError; any other OSError (a file that may not be executed) is not caught.
CallLaunchFailed(launch) ==
    IF launch = "notfound"
    THEN Raise("MistError", Text_binary_not_found \o Client_binary)
    ELSE Raise("PermissionError", <<>>)

\* Client.call, subprocess.run raising TimeoutExpired.
CallTimedOut == Raise("MistError", Text_timeout_after \o Client_timeout \o <<"s">>)

\* The message taken from the error stream as it is, untrimmed.
ExitMessageUntrimmed(cp) ==
    IF cp.stderr # <<>> THEN cp.stderr
    ELSE Text_exit_code \o IntChars(cp.returncode)

\* result.stderr.strip() or f"exit code {result.returncode}"
ExitMessage(cp) ==
    IF Strip(cp.stderr) # <<>> THEN Strip(cp.stderr)
    ELSE Text_exit_code \o IntChars(cp.returncode)

\* call returning the output whatever the exit status.
CallCompletedUnchecked(cp) == Return(cp.stdout)

\* Client.call, subprocess.run having returned cp.
CallCompleted(cp) ==
    IF cp.returncode # 0 THEN Raise("MistError", ExitMessage(cp)) ELSE Return(cp.stdout)

\* The last line of the output as it is, untrimmed.
ResponseLineUntrimmed(out) == Last(SplitLines(out))

\* out.strip().split("\n")[-1]
ResponseLine(out) == Last(SplitLines(Strip(out)))

\* send answering a line it cannot decode with the default Message.
SendFinishLenient(cr) ==
    IF cr.kind = "raise" THEN cr
    ELSE IF Strip(cr.val) # <<>>
         THEN IF from_json(ResponseLine(cr.val)).kind = "raise"
              THEN Return(DefaultMessage)
              ELSE from_json(ResponseLine(cr.val))
    ELSE Return(DefaultMessage)

\* send decoding the output without asking whether it is empty.
SendFinishAlwaysDecodes(cr) ==
    IF cr.kind = "raise" THEN cr ELSE from_json(ResponseLine(cr.val))

\* Client.send after self.call: an exception of call propagates.
SendFinish(cr) ==
    IF cr.kind = "raise" THEN cr
    ELSE IF Strip(cr.val) # <<>> THEN from_json(ResponseLine(cr.val))
    ELSE Return(DefaultMessage)

\* Client.version after self.call.
VersionFinish(cr) == IF cr.kind = "raise" THEN cr ELSE Return(Strip(cr.val))

\* What the operation o hands its caller once self.call has ended with cr.
Finish(o, cr) ==
    CASE o.name = "send" -> SendFinish(cr)
      [] o.name = "version" -> VersionFinish(cr)
      [] OTHER -> cr

\* subprocess.run: stdin is a pipe only when input is given; with input=None
\* the child inherits the caller's own standard input.
StdinModeFor(input) == IF input = PyNone THEN "inherit" ELSE "pipe"

\* The timeout handled without killing the child.
AfterKillSkipped(c) == c

\* Popen.kill(): a child that has exited is left alone.
AfterKill(c) == IF c = "running" THEN "zombie" ELSE c

\* Popen.wait(): the exited child is reaped.
AfterWait(c) == IF c = "zombie" THEN "reaped" ELSE c

---------------------------------------------------------------------------
(* The inputs drawn: messages, texts to decode, and what a tool does.      *)

Text_k == <<"k">>
Text_from == <<"f", "r", "o", "m">>
Text_go == <<"g", "o">>
Text_python == <<"p", "y", "t", "h", "o", "n">>
Text_health_ping == <<"h", "e", "a", "l", "t", "h", ".", "p", "i", "n", "g">>
Text_health_pong == <<"h", "e", "a", "l", "t", "h", ".", "p", "o", "n", "g">>
Text_resp1 == <<"r", "e", "s", "p", "1">>
\* A type no MIST tool knows, with a quote, a backslash and a line break in it.
Text_odd == <<"z", "\"", "\\", "\n", ".", "q">>

Entry(key, val) == [key |-> key, val |-> val]

Atoms == {PyNone, PyInt(0 - 42), PyStr(Text_odd)}

RECURSIVE Vals(_)
\* The JSON values nested at most d deep: lists and dicts of none, one or two items.
Vals(d) ==
    IF d = 0 THEN Atoms
    ELSE LET S == Vals(d - 1) IN
         Atoms
         \cup {PyList(<<>>), PyDict(<<>>)}
         \cup {PyList(<<v>>) : v \in S}
         \cup {PyList(<<v, PyInt(0 - 42)>>) : v \in S}
         \cup {PyDict(<<Entry(Text_k, v)>>) : v \in S}
         \cup {PyDict(<<Entry(Text_k, v), Entry(Text_from, PyNone)>>) : v \in S}

Payloads == {v \in Vals(MaxDepth) : v.k = "dict"}

\* The messages encoded: str, str, str, str, int and dict fields.
Messages ==
    {Message(PyStr(<<"1">>), id, PyStr(Text_python), type, ts, payload) :
        id \in {PyStr(<<>>), PyStr(Text_resp1)},
        type \in {PyStr(<<>>), PyStr(Text_health_ping), PyStr(Text_odd)},
        ts \in {PyInt(0), PyInt(1700000000)},
        payload \in Payloads}

\* The six fields of an envelope, in the order to_json writes them.
FieldKeys ==
    <<Chars_version, Chars_id, Chars_source, Chars_type, Chars_timestamp_ns, Chars_payload>>

FieldDefaults ==
    <<PyStr(<<"1">>), PyStr(<<>>), PyStr(<<>>), PyStr(<<>>), PyInt(0), PyDict(<<>>)>>

\* Values given to the fields present: of the declared types, or of any type.
FieldValues(variant) ==
    IF variant = "typed"
    THEN <<PyStr(<<"2">>), PyStr(Text_resp1), PyStr(Text_go), PyStr(Text_health_pong),
           PyInt(17), PyDict(<<Entry(Text_from, PyStr(Text_go))>>)>>
    ELSE <<PyNone, PyInt(7), PyList(<<>>), PyStr(<<>>), PyStr(Text_odd), PyList(<<PyInt(1)>>)>>

RECURSIVE EntriesFrom(_, _, _)
\* The entries of the fields j..6 that present holds.
EntriesFrom(present, vals, j) ==
    IF j > 6 THEN <<>>
    ELSE (IF j \in present THEN <<Entry(FieldKeys[j], vals[j])>> ELSE <<>>)
         \o EntriesFrom(present, vals, j + 1)

\* A JSON object holding exactly the fields of present.
PartialObject(present, variant) == PyDict(EntriesFrom(present, FieldValues(variant), 1))

\* The text of a JSON object: as json.dumps writes it, or compact with
\* whitespace around it.
ObjectText(obj, format) ==
    IF format = "dumps" THEN Dumps(obj)
    ELSE <<" ", "\n">> \o DumpsWith(obj, <<",">>, <<" ", ":">>) \o <<"\t">>

ObjectInputs ==
    {[class |-> "object", present |-> present, variant |-> variant,
      text |-> ObjectText(PartialObject(present, variant), format)] :
        present \in SUBSET (1..6), variant \in {"typed", "any"}, format \in {"dumps", "compact"}}

\* JSON texts that are no object.
NonObjectTexts ==
    {<<"[", "1", "]">>, <<"4", "2">>, <<"\"", "s", "\"">>, <<"n", "u", "l", "l">>,
     <<"t", "r", "u", "e">>, <<"[", "{", "}", "]">>}

\* Texts that are not JSON.
InvalidTexts ==
    {<<>>, <<"l", "o", "g">>, <<"{">>, <<"{", "\"", "i", "d", "\"", ":", "}">>,
     <<"{", "}", " ", "x">>, <<"{", "'", "i", "d", "'", ":", "1", "}">>,
     <<"{", "\"", "i", "d", "\"", ":", "1", ",", "}">>, <<"{", "\"", "i", "d", "\"", ":", "0", "1", "}">>,
     <<"{", "\"", "i", "d", "\"", ":", "\"", "a", "\n", "\"", "}">>, <<"\f", "{", "}">>}

DecodeInputs ==
    ObjectInputs
    \cup {[class |-> "nonobject", text |-> t] : t \in NonObjectTexts}
    \cup {[class |-> "invalid", text |-> t] : t \in InvalidTexts}

\* The envelope a tool answers with (test_client_send_with_echo_binary).
ResponseMessage ==
    Message(PyStr(<<"1">>), PyStr(Text_resp1), PyStr(Text_go), PyStr(Text_health_pong),
            PyInt(0), PyDict(<<Entry(Text_from, PyStr(Text_go))>>))

LineKinds == {"noise", "envelope", "partial", "array", "blank"}

\* One line of a tool's output.
LineText(kind) ==
    CASE kind = "noise" -> <<"l", "o", "g", " ", "{">>
      [] kind = "envelope" -> to_json(ResponseMessage)
      [] kind = "partial" -> <<" ", "{", "\"", "i", "d", "\"", ":", "\"", "r", "2", "\"", "}">>
      [] kind = "array" -> <<"[", "1", "]">>
      [] kind = "blank" -> <<" ">>

\* What may follow the last line.
Trailers == {<<>>, <<"\n">>, <<"\n", " ", "\t", "\n", "\f", "\n">>}

\* The text of an output: its lines, a line break between them, and a trailer.
OutputText(o) ==
    Join([j \in 1..Len(o.lines) |-> LineText(o.lines[j])], <<"\n">>) \o o.trailer

Outputs ==
    [lines : UNION {[1..n -> LineKinds] : n \in 0..MaxLines}, trailer : Trailers]

PlainOutputs ==
    {[lines |-> <<>>, trailer |-> <<>>],
     [lines |-> <<"noise">>, trailer |-> <<"\n">>],
     [lines |-> <<"envelope">>, trailer |-> <<"\n">>]}

ErrTexts ==
    {<<>>, <<" ", "\n">>, <<"\n", " ", "s", "o", " ", "b", "a", "d", "\t", "\n">>}

ExitCodes == (0..MaxExit) \cup {0 - 9}

\* The launch fails: no such file, or a file that may not be executed.
LaunchFailEnvs ==
    [launch : {"notfound", "denied"}, reads : {FALSE}, hang : {"no"}, rc : {0},
     out : {[lines |-> <<>>, trailer |-> <<>>]}, err : {<<>>}]

\* The tool starts; it may read its input to the end first, it may sleep for
\* ever before or after it has written, and it exits with any status.
PlainEnvs ==
    [launch : {"ok"}, reads : BOOLEAN, hang : {"no", "before", "after"}, rc : ExitCodes,
     out : PlainOutputs, err : ErrTexts]

\* A tool that speaks the protocol: reads its input, writes its lines, exits 0.
ResponseEnvs ==
    [launch : {"ok"}, reads : {TRUE}, hang : {"no"}, rc : {0}, out : Outputs, err : {<<>>}]

CallArgs == {<<>>, <<"version">>}
CallInputs == {PyNone, PyStr(<<>>), PyStr(<<"{", "}">>)}
SendPayloads == {PyDict(<<>>), PyDict(<<Entry(Text_from, PyStr(Text_python))>>)}

---------------------------------------------------------------------------
(* The state machine.                                                      *)

NoOp == [name |-> "none"]
NoEnv == [launch |-> "none"]

Init ==
    /\ pc = "idle"
    /\ op = NoOp
    /\ env = NoEnv
    /\ child = "none"
    /\ childPc = "none"
    /\ stdinMode = "none"
    /\ stdinEOF = FALSE
    /\ stdinData = <<>>
    /\ outPipe = <<>>
    /\ errPipe = <<>>
    /\ timer = "off"
    /\ killed = FALSE
    /\ completed = NoResult
    /\ callRes = NoResult
    /\ result = NoResult

processVars == <<child, childPc, stdinMode, stdinEOF, stdinData, outPipe, errPipe,
                 timer, killed, completed>>

\* m.to_json()
DoToJson(m) ==
    /\ pc = "idle"
    /\ op' = [name |-> "to_json", msg |-> m]
    /\ result' = Return(to_json(m))
    /\ pc' = "encoded"
    /\ UNCHANGED <<env, processVars, callRes>>

\* Message.from_json(m.to_json())
DoFromJsonOfEncoded ==
    /\ pc = "encoded"
    /\ op' = [name |-> "roundtrip", msg |-> op.msg]
    /\ result' = from_json(result.val)
    /\ pc' = "done"
    /\ UNCHANGED <<env, processVars, callRes>>

\* Message.from_json(inp.text)
DoFromJson(inp) ==
    /\ pc = "idle"
    /\ op' = [name |-> "from_json", input |-> inp]
    /\ result' = from_json(inp.text)
    /\ pc' = "done"
    /\ UNCHANGED <<env, processVars, callRes>>

\* client.call(args, stdin) is entered.
StartCall(args, stdin, e) ==
    /\ pc = "idle"
    /\ op' = [name |-> "call", args |-> args, stdin |-> stdin]
    /\ env' = e
    /\ pc' = "popen"
    /\ UNCHANGED <<processVars, callRes, result>>

\* client.send(msg_type, payload, source) is entered: the message is built
\* and self.call(["--transport", "stdio"], stdin=msg.to_json()) begins.
StartSend(msg_type, payload, source, e) ==
    /\ pc = "idle"
    /\ op' = [name |-> "send", args |-> <<"--transport", "stdio">>,
              stdin |-> PyStr(to_json(Message(PyStr(<<"1">>), PyStr(<<>>), PyStr(source),
                                              PyStr(msg_type), PyInt(0), payload)))]
    /\ env' = e
    /\ pc' = "popen"
    /\ UNCHANGED <<processVars, callRes, result>>

\* client.version() is entered: self.call(["version"]) begins.
StartVersion(e) ==
    /\ pc = "idle"
    /\ op' = [name |-> "version", args |-> <<"version">>, stdin |-> PyNone]
    /\ env' = e
    /\ pc' = "popen"
    /\ UNCHANGED <<processVars, callRes, result>>

\* subprocess.run cannot start the binary: no child is left, call raises.
PopenFails ==
    /\ pc = "popen"
    /\ env.launch # "ok"
    /\ callRes' = CallLaunchFailed(env.launch)
    /\ result' = Finish(op, callRes')
    /\ pc' = "done"
    /\ UNCHANGED <<op, env, processVars>>

\* subprocess.run starts the child with its output and error streams captured.
PopenStarts ==
    /\ pc = "popen"
    /\ env.launch = "ok"
    /\ child' = "running"
    /\ childPc' = "start"
    /\ stdinMode' = StdinModeFor(op.stdin)
    /\ timer' = "armed"
    /\ pc' = "communicate"
    /\ UNCHANGED <<op, env, stdinEOF, stdinData, outPipe, errPipe, killed, completed,
                   callRes, result>>

\* communicate() writes the input to the pipe and closes it; a child that has
\* exited receives nothing (the broken pipe is ignored).
WriteInput ==
    /\ pc = "communicate"
    /\ stdinMode = "pipe"
    /\ ~stdinEOF
    /\ stdinData' = IF child = "running" THEN op.stdin.s ELSE stdinData
    /\ stdinEOF' = TRUE
    /\ UNCHANGED <<pc, op, env, child, childPc, stdinMode, outPipe, errPipe, timer,
                   killed, completed, callRes, result>>

\* The caller's own standard input, which the child inherited, comes to its end.
CallerStdinEnds ==
    /\ child = "running"
    /\ stdinMode = "inherit"
    /\ ~stdinEOF
    /\ stdinEOF' = TRUE
    /\ UNCHANGED <<pc, op, env, child, childPc, stdinMode, stdinData, outPipe, errPipe,
                   timer, killed, completed, callRes, result>>

\* The tool begins: it sleeps, reads its input, or goes on to write.
ChildStart ==
    /\ child = "running"
    /\ childPc = "start"
    /\ childPc' = IF env.hang = "before" THEN "hung"
                  ELSE IF env.reads THEN "reading" ELSE "writing"
    /\ UNCHANGED <<pc, op, env, child, stdinMode, stdinEOF, stdinData, outPipe, errPipe,
                   timer, killed, completed, callRes, result>>

\* The tool, reading its input to the end, sees end-of-input.
ChildSeesEOF ==
    /\ child = "running"
    /\ childPc = "reading"
    /\ stdinEOF
    /\ childPc' = "writing"
    /\ UNCHANGED <<pc, op, env, child, stdinMode, stdinEOF, stdinData, outPipe, errPipe,
                   timer, killed, completed, callRes, result>>

\* The tool writes its output stream.
ChildWritesOut ==
    /\ child = "running"
    /\ childPc = "writing"
    /\ outPipe' = OutputText(env.out)
    /\ childPc' = "wrote_out"
    /\ UNCHANGED <<pc, op, env, child, stdinMode, stdinEOF, stdinData, errPipe,
                   timer, killed, completed, callRes, result>>

\* The tool writes its error stream, and then sleeps or is ready to exit.
ChildWritesErr ==
    /\ child = "running"
    /\ childPc = "wrote_out"
    /\ errPipe' = env.err
    /\ childPc' = IF env.hang = "after" THEN "hung" ELSE "wrote_all"
    /\ UNCHANGED <<pc, op, env, child, stdinMode, stdinEOF, stdinData, outPipe,
                   timer, killed, completed, callRes, result>>

\* The tool exits with its status; until it is waited for it is a zombie.
ChildExits ==
    /\ child = "running"
    /\ childPc = "wrote_all"
    /\ child' = "zombie"
    /\ childPc' = "exited"
    /\ UNCHANGED <<pc, op, env, stdinMode, stdinEOF, stdinData, outPipe, errPipe,
                   timer, killed, completed, callRes, result>>

\* communicate() has written the input, read both streams to their end and
\* waited for the child; subprocess.run returns and call checks the status.
RunReturns ==
    /\ pc = "communicate"
    /\ child = "zombie"
    /\ stdinMode = "pipe" => stdinEOF
    /\ child' = AfterWait(child)
    /\ timer' = "off"
    /\ completed' = CompletedProcess(env.rc, outPipe, errPipe)
    /\ callRes' = CallCompleted(completed')
    /\ result' = Finish(op, callRes')
    /\ pc' = "done"
    /\ UNCHANGED <<op, env, childPc, stdinMode, stdinEOF, stdinData, outPipe, errPipe, killed>>

\* The timeout passes with the child still running: communicate() raises
\* TimeoutExpired inside subprocess.run.
TimeoutExpires ==
    /\ pc = "communicate"
    /\ child = "running"
    /\ timer = "armed"
    /\ timer' = "expired"
    /\ pc' = "timeout"
    /\ UNCHANGED <<op, env, child, childPc, stdinMode, stdinEOF, stdinData, outPipe,
                   errPipe, killed, completed, callRes, result>>

\* subprocess.run, on TimeoutExpired: process.kill(), process.wait(), raise;
\* call turns the exception into a MistError.
TimeoutCleanup ==
    /\ pc = "timeout"
    /\ killed' = (child = "running")
    /\ child' = AfterWait(AfterKill(child))
    /\ childPc' = IF child = "running" THEN "killed" ELSE childPc
    /\ callRes' = CallTimedOut
    /\ result' = Finish(op, callRes')
    /\ pc' = "done"
    /\ UNCHANGED <<op, env, stdinMode, stdinEOF, stdinData, outPipe, errPipe, timer, completed>>

\* The caller, idle, enters one operation with inputs drawn from the sets above.
Enter ==
    /\ pc = "idle"
    /\ \/ \E m \in Messages : DoToJson(m)
       \/ \E inp \in DecodeInputs : DoFromJson(inp)
       \/ \E args \in CallArgs, stdin \in CallInputs, e \in LaunchFailEnvs \cup PlainEnvs :
             StartCall(args, stdin, e)
       \/ \E payload \in SendPayloads, e \in LaunchFailEnvs \cup PlainEnvs \cup ResponseEnvs :
             StartSend(Text_health_ping, payload, Text_python, e)
       \/ \E e \in LaunchFailEnvs \cup PlainEnvs : StartVersion(e)

Next ==
    \/ Enter
    \/ DoFromJsonOfEncoded
    \/ PopenFails
    \/ PopenStarts
    \/ WriteInput
    \/ CallerStdinEnds
    \/ ChildStart
    \/ ChildSeesEOF
    \/ ChildWritesOut
    \/ ChildWritesErr
    \/ ChildExits
    \/ RunReturns
    \/ TimeoutExpires
    \/ TimeoutCleanup

Spec == Init /\ [][Next]_vars

---------------------------------------------------------------------------
(* The claims.                                                             *)

ProcessOps == {"call", "send", "version"}

\* self.call has ended, by returning or by raising.
CallEnded == pc = "done" /\ op.name \in ProcessOps

\* The child was started.
Launched == env.launch = "ok"

\* The tool exited by itself before the timeout passed.
ExitedInTime == childPc = "exited" /\ timer # "expired"

CallSucceeded == Launched /\ ExitedInTime /\ env.rc = 0

AllWhitespace(t) == \A j \in 1..Len(t) : t[j] \in {" ", "\t", "\n", "\f"}

\* The lines of an output that are not blank, by what the tool wrote.
NonBlank(lines) == {j \in 1..Len(lines) : lines[j] # "blank"}
LastNonBlank(lines) == lines[CHOOSE j \in NonBlank(lines) : \A i \in NonBlank(lines) : i <= j]

EnvelopeKinds == {"envelope", "partial"}
Envelopes(lines) == {j \in 1..Len(lines) : lines[j] \in EnvelopeKinds}
LastEnvelope(lines) == lines[CHOOSE j \in Envelopes(lines) : \A i \in Envelopes(lines) : i <= j]

\* The Message an envelope line carries.
Carried(kind) ==
    IF kind = "envelope"
    THEN [version |-> PyStr(<<"1">>), id |-> PyStr(<<"r", "e", "s", "p", "1">>),
          source |-> PyStr(<<"g", "o">>),
          type |-> PyStr(<<"h", "e", "a", "l", "t", "h", ".", "p", "o", "n", "g">>),
          timestamp_ns |-> PyInt(0),
          payload |-> PyDict(<<[key |-> <<"f", "r", "o", "m">>, val |-> PyStr(<<"g", "o">>)]>>)]
    ELSE [version |-> PyStr(<<"1">>), id |-> PyStr(<<"r", "2">>), source |-> PyStr(<<>>),
          type |-> PyStr(<<>>), timestamp_ns |-> PyInt(0), payload |-> PyDict(<<>>)]

\* C1: Client.call returns the process's captured output if and only if the
\* process was launched, exited within the timeout and exited with status 0;
\* on every other outcome (launch failure, timeout, nonzero exit) it raises,
\* and what it raises carries none of the output the process wrote.
C1_CallReturnsOutputIffSuccess ==
    CallEnded =>
        /\ callRes.kind = "return" <=> CallSucceeded
        /\ CallSucceeded => callRes = [kind |-> "return", val |-> OutputText(env.out)]
        /\ ~CallSucceeded =>
              /\ callRes.kind = "raise"
              /\ DOMAIN callRes = {"kind", "exc", "msg"}
              /\ outPipe # <<>> => callRes.msg # outPipe

\* C1's case: the tool wrote output and exited with a nonzero status, and call raised.
C1_Witness ==
    /\ CallEnded /\ op.name = "call"
    /\ Launched /\ ExitedInTime /\ env.rc # 0
    /\ outPipe # <<>>
    /\ callRes.kind = "raise"

\* C2: once call has returned or raised, on success as on each failure (binary
\* not found, timeout, nonzero exit), no child of the call is running or
\* unreaped; on a timeout the child has been terminated by the time the
\* timeout error is raised.
C2_NoChildLeftBehind ==
    /\ CallEnded => child \in {"none", "reaped"}
    /\ callRes # NoResult /\ timer = "expired" => child = "reaped"
    /\ callRes # NoResult /\ ~Launched => child = "none"

\* C2's case: the tool slept, the timeout passed, the child was killed and reaped,
\* and call raised the timeout error.
C2_Witness ==
    /\ CallEnded
    /\ env.hang = "before"
    /\ timer = "expired" /\ killed /\ child = "reaped"
    /\ callRes.kind = "raise" /\ callRes.exc = "MistError"

\* C3: every failure of Client.call and Client.send reaches the caller as a
\* MistError: binary not found, timeout, nonzero exit, and a response whose
\* selected line is no JSON object; no other exception type escapes send.
C3_OnlyMistErrorEscapes ==
    pc = "done" /\ op.name \in {"call", "send"} /\ env.launch \in {"ok", "notfound"}
    /\ result.kind = "raise"
        => result.exc = "MistError"

\* C4: when the tool exits 0 and the last non-empty line of its output is a
\* well-formed envelope, whatever lines come before it and whatever blank lines
\* or whitespace come after it, Client.send returns the Message decoded from
\* that line.
C4_LastNonEmptyLineIsDecoded ==
    pc = "done" /\ op.name = "send" /\ CallSucceeded
    /\ NonBlank(env.out.lines) # {} /\ LastNonBlank(env.out.lines) \in EnvelopeKinds
        => result = [kind |-> "return", val |-> Carried(LastNonBlank(env.out.lines))]

\* C4's case: two noise lines, the envelope line, then blank lines and
\* whitespace; send returned the envelope.
C4_Witness ==
    /\ pc = "done" /\ op.name = "send" /\ CallSucceeded
    /\ env.out.lines = <<"noise", "noise", "envelope">>
    /\ Len(env.out.trailer) > 1
    /\ result.kind = "return" /\ result.val.id = PyStr(<<"r", "e", "s", "p", "1">>)

C6_EmptyOutputGivesDefaultMessage ==
    pc = "done" /\ op.name = "send" /\ CallSucceeded /\ AllWhitespace(outPipe)
        => result = [kind |-> "return",
                     val |-> [version |-> PyStr(<<"1">>), id |-> PyStr(<<>>),
                              source |-> PyStr(<<>>), type |-> PyStr(<<>>),
                              timestamp_ns |-> PyInt(0), payload |-> PyDict(<<>>)]]

\* C6's case: the tool wrote whitespace and line breaks only, and send
\* returned a Message.
C6_Witness ==
    /\ pc = "done" /\ op.name = "send" /\ CallSucceeded
    /\ Len(outPipe) > 3 /\ AllWhitespace(outPipe)
    /\ result.kind = "return"

\* The text t with the whitespace around it removed is m.
IsTrimOf(m, t) ==
    \E a \in 0..Len(t) :
        /\ a + Len(m) <= Len(t)
        /\ m = SubSeq(t, a + 1, a + Len(m))
        /\ AllWhitespace(SubSeq(t, 1, a))
        /\ AllWhitespace(SubSeq(t, a + Len(m) + 1, Len(t)))
        /\ m # <<>> => ~AllWhitespace(<<m[1]>>) /\ ~AllWhitespace(<<m[Len(m)]>>)

\* "exit code N" for a status of one digit.
ExitCodeText(n) ==
    <<"e", "x", "i", "t", " ", "c", "o", "d", "e", " ">>
    \o (IF n < 0 THEN <<"-", Digits[1 - n]>> ELSE <<Digits[n + 1]>>)

\* C7: when the child exits with a nonzero status N, Client.call raises a
\* MistError whose message is the error-stream text with the whitespace around
\* it removed, or exactly "exit code N" when nothing is left of that text.
C7_NonzeroExitMessage ==
    CallEnded /\ Launched /\ ExitedInTime /\ env.rc # 0
        => /\ callRes.kind = "raise" /\ callRes.exc = "MistError"
           /\ IF AllWhitespace(env.err)
              THEN callRes.msg = ExitCodeText(env.rc)
              ELSE IsTrimOf(callRes.msg, env.err)

\* C7's case: the error stream held whitespace only and the status was 2.
C7_Witness ==
    /\ CallEnded /\ Launched /\ ExitedInTime /\ env.rc = 2
    /\ errPipe = <<" ", "\n">>
    /\ callRes.kind = "raise"
    /\ callRes.msg = <<"e", "x", "i", "t", " ", "c", "o", "d", "e", " ", "2">>

\* The field of a Message by its place in the envelope.
FieldOf(m, j) ==
    CASE j = 1 -> m.version
      [] j = 2 -> m.id
      [] j = 3 -> m.source
      [] j = 4 -> m.type
      [] j = 5 -> m.timestamp_ns
      [] j = 6 -> m.payload

\* C8: Message.from_json accepts every JSON object, whatever subset of the six
\* fields it holds: a field present keeps its given value, a field absent
\* takes its default (version "1", id "", source "", type "", timestamp_ns 0,
\* payload {}), and it fails only on a text that is not JSON or not an object.
C8_FromJsonFillsDefaults ==
    pc = "done" /\ op.name = "from_json" =>
        /\ op.input.class = "object" =>
              /\ result.kind = "return"
              /\ \A j \in 1..6 :
                    FieldOf(result.val, j) =
                        IF j \in op.input.present
                        THEN FieldValues(op.input.variant)[j]
                        ELSE <<PyStr(<<"1">>), PyStr(<<>>), PyStr(<<>>), PyStr(<<>>),
                               PyInt(0), PyDict(<<>>)>>[j]
        /\ result.kind = "raise" => op.input.class \in {"nonobject", "invalid"}

\* C8's case: an object holding source and payload only was decoded.
C8_Witness ==
    /\ pc = "done" /\ op.name = "from_json"
    /\ op.input.class = "object" /\ op.input.present = {3, 6}
    /\ result.kind = "return"
    /\ result.val.version = PyStr(<<"1">>) /\ result.val.source = PyStr(<<"g", "o">>)

\* C9: for every Message m, Message.from_json(m.to_json()) equals m in every
\* field, with payloads of nested mappings, sequences, nulls, integers and
\* strings, and with any type string.
C9_RoundTrip ==
    pc = "done" /\ op.name = "roundtrip" => result = [kind |-> "return", val |-> op.msg]

\* C9's case: a message of an unknown type with a nonzero timestamp and a
\* payload holding a list that holds a mapping was encoded and decoded.
C9_Witness ==
    /\ pc = "done" /\ op.name = "roundtrip"
    /\ op.msg.type = PyStr(Text_odd)
    /\ op.msg.timestamp_ns # PyInt(0)
    /\ op.msg.payload.d # <<>>
    /\ op.msg.payload.d[1].val.k = "list"
    /\ op.msg.payload.d[1].val.l # <<>>
    /\ op.msg.payload.d[1].val.l[1].k = "dict"
    /\ result.kind = "return"

\* C10: for every call, with or without an input payload, the child is started
\* with its input stream captured and end-of-input is signalled on it, so that
\* a tool reading its input to the end is never left waiting on an input only
\* the caller's side can end.
C10_InputCapturedAndClosed ==
    /\ child # "none" => stdinMode = "pipe"
    /\ completed # NoResult => stdinMode = "pipe" /\ stdinEOF
    /\ ~(childPc = "reading" /\ stdinMode = "inherit" /\ ~stdinEOF)

====
